---- MODULE Spec2Model ----
(***************************************************************************)
(* The recurring-events hook (src/src/hooks/useEvents.ts, second version,  *)
(* lines 135-304): seeding of the two permanent events, reconciliation of  *)
(* elapsed occurrences, and the live subscription that publishes the       *)
(* sorted list.  Several clients share one remote store.                   *)
(*                                                                         *)
(* Calendar dates ("YYYY-MM-DD") are day numbers; day 0 is a Sunday, so    *)
(* getDay() of day d is d % 7.  Instants are minutes of local wall-clock   *)
(* time; the UTC instant is the local one minus the zone offset.           *)
(***************************************************************************)
EXTENDS Integers, Sequences, FiniteSets, TLC

\* ---------------------------------------------------------------- bounds
MaxId == 4          \* push() keys available
MaxTicks == 1       \* clock advances in one behaviour
MaxInFlight == 1    \* handlers of one client awaiting a reconciliation write

\* ------------------------------------------------------------- constants
MinutesPerDay == 24 * 60
WindowMinutes == (2 * 60 * 60 * 1000) \div (60 * 1000)
SundayTime == 10 * 60
StudyTime == 19 * 60
NoDate == 0     \* a missing (falsy) date
NoId == 0       \* a stored record without an id property

Clients == {"a", "b"}
\* local times of day at which something happens
TimesOfDay == {30, 8 * 60 + 30, 12 * 60 + 30, 22 * 60 + 30}
\* zone offsets in minutes east of UTC: New York, UTC, Kalk Bay, Tonga
ZoneOffsets == {0 - 300, 0, 120, 780}
\* the first days a behaviour can start on: a Saturday and a Sunday
StartDays == {13, 14}

VARIABLES
    now,        \* local wall-clock instant, in minutes
    zone,       \* the zone offset of the clients
    ticks,      \* clock advances so far
    store,      \* the remote 'events' node: push key -> event
    nextId,     \* the next push() key
    seedPc,     \* per client: position of initializePermanentEvents
    seedUpd,    \* per client: the updates object of initializePermanentEvents
    seedAt,     \* per client: the instant at which seedUpd was computed
    seedHist,   \* order of the seeding reads and of the completed seedings
    subscribed, \* per client: onValue is registered
    pending,    \* per client: a snapshot is waiting to be delivered
    inflight,   \* per client: handlers awaiting their reconciliation write
    events,     \* per client: the hook's events state (published list)
    pubAt,      \* per client: the instant of the last publication
    cache,      \* per client: cacheService entry under CACHE_KEY: <<>> while
                \* nothing was set, else <<the list set last>>
    loading,    \* per client: the hook's loading state
    error,      \* per client: the hook's error state
    engine,     \* how the clients' Array.prototype.sort works
    \* the directions widget (src/src/components/DirectionsMap.tsx)
    originRef,          \* what the origin autocomplete holds
    selectedMode,       \* the travel mode
    mapError,           \* the map error state
    isCalculating,
    directionsResponse, \* the route shown, by name
    distance,
    duration,
    toast,              \* the transient notification on screen
    routeRequest        \* the call of directionsService.route being awaited

hookVars == <<now, zone, ticks, store, nextId, seedPc, seedUpd, seedAt, seedHist,
              subscribed, pending, inflight, events, pubAt, cache, loading, error,
              engine>>

mapVars == <<originRef, selectedMode, mapError, isCalculating, directionsResponse,
             distance, duration, toast, routeRequest>>

vars == <<hookVars, mapVars>>

\* ------------------------------------------------------------ pure parts
Weekday(day) == day % 7

LocalDay(t) == t \div MinutesPerDay

\* toISOString().split('T')[0]: the UTC calendar date of a local instant
toISODate(t, off) == (t - off) \div MinutesPerDay

getNextDate(dayOfWeek, t, off) ==
    LET currentDay == Weekday(LocalDay(t))
        diff == dayOfWeek - currentDay
        daysUntil == IF diff <= 0 THEN diff + 7 ELSE diff
    IN  toISODate(t + daysUntil * MinutesPerDay, off)

\* new Date(`${date}T${time}`): a date-time without zone is local time
eventDate(e) == e.date * MinutesPerDay + e.time

eventEnd(e) == eventDate(e) + WindowMinutes

DEFAULT_EVENTS ==
    <<[title |-> "Sunday Service", time |-> SundayTime, isPermanent |-> TRUE,
       recurrence |-> <<0>>],
      [title |-> "Bible Study", time |-> StudyTime, isPermanent |-> TRUE,
       recurrence |-> <<3>>]>>

\* { ...DEFAULT_EVENTS[i], date }: the record as seeding stores it, without id
WithDate(d, date) ==
    [id |-> NoId, title |-> d.title, time |-> d.time, isPermanent |-> d.isPermanent,
     recurrence |-> d.recurrence, date |-> date]

Empty == [i \in {} |-> 0]

\* the events a snapshot's forEach visits, in key order, as the handler
\* materialises them: { id: childSnapshot.key, ...data }; an id property of
\* the stored record comes last in the spread and wins
RECURSIVE SnapshotList(_, _)
SnapshotList(st, ids) ==
    IF ids = {} THEN <<>>
    ELSE LET k == CHOOSE x \in ids : \A y \in ids : x <= y
         IN  <<[id |-> IF st[k].id # NoId THEN st[k].id ELSE k, title |-> st[k].title, time |-> st[k].time,
                isPermanent |-> st[k].isPermanent,
                recurrence |-> st[k].recurrence, date |-> st[k].date]>>
             \o SnapshotList(st, ids \ {k})

allEventsOf(st) == SnapshotList(st, DOMAIN st)

\* the scan of initializePermanentEvents for one recurrence slot
existingSlot(st, dow) ==
    \E k \in DOMAIN st :
        /\ st[k].isPermanent
        /\ st[k].recurrence # <<>>
        /\ st[k].recurrence[1] = dow

\* seedUpdates with the Bible Study inserted whether or not its slot is held
seedUpdatesUnguarded(st, t, off, first) ==
    LET wednesdayKey == IF existingSlot(st, 0) THEN first ELSE first + 1
        sunday == IF existingSlot(st, 0) THEN Empty
                  ELSE first :> WithDate(DEFAULT_EVENTS[1], getNextDate(0, t, off))
        study == wednesdayKey :> WithDate(DEFAULT_EVENTS[2], getNextDate(3, t, off))
    IN  sunday @@ study

\* seedUpdates with both insertions under one push key
seedUpdatesOneKey(st, t, off, first) ==
    LET sunday == IF existingSlot(st, 0) THEN Empty
                  ELSE first :> WithDate(DEFAULT_EVENTS[1], getNextDate(0, t, off))
        study == IF existingSlot(st, 3) THEN Empty
                 ELSE first :> WithDate(DEFAULT_EVENTS[2], getNextDate(3, t, off))
    IN  sunday @@ study

\* the updates object of initializePermanentEvents; first is the next push key
seedUpdates(st, t, off, first) ==
    LET sundayKey == first
        wednesdayKey == IF existingSlot(st, 0) THEN first ELSE first + 1
        sunday == IF existingSlot(st, 0) THEN Empty
                  ELSE sundayKey :> WithDate(DEFAULT_EVENTS[1], getNextDate(0, t, off))
        study == IF existingSlot(st, 3) THEN Empty
                 ELSE wednesdayKey :> WithDate(DEFAULT_EVENTS[2], getNextDate(3, t, off))
    IN  sunday @@ study

\* set(ref(database, 'events'), updates): the node is overwritten by the value
setEvents(st, updates) == updates

\* the test of validateAndUpdatePermanentEvents on one event
windowElapsed(e, t) ==
    /\ e.isPermanent
    /\ e.recurrence # <<>>
    /\ t > eventEnd(e)

\* the updates object of validateAndUpdatePermanentEvents, keyed by event id
reconcileUpdates(list, t, off) ==
    LET idx == {i \in 1..Len(list) : windowElapsed(list[i], t)}
        at(k) == CHOOSE i \in idx : list[i].id = k
    IN  [k \in {list[i].id : i \in idx} |->
            [list[at(k)] EXCEPT !.date = getNextDate(list[at(k)].recurrence[1], t, off)]]

\* set(ref(database), updates) with keys events/<id>, accepted by the store as
\* the batched write of its contract: each path is replaced by the staged
\* value ({ ...event, date }, which carries the event's id), the rest is kept.
\* (A store that refuses keys holding '/', as the SDK's own argument
\* validation of set does, takes only the rejection of ReconcileFail at this
\* call.)
writePaths(st, updates) ==
    [k \in DOMAIN st \cup DOMAIN updates |->
        IF k \in DOMAIN updates THEN updates[k] ELSE st[k]]

\* the comparator of the handler's sort
compareEvents(a, b) ==
    IF a.date = NoDate \/ b.date = NoDate THEN 0 ELSE a.date - b.date

\* Array.prototype.sort with a comparator that is no consistent order gives
\* an implementation-defined order.  Two implementations are modelled.
\* Insertion from the left, as an engine sorts a short array:
RECURSIVE insertEvent(_, _)
insertEvent(sorted, x) ==
    IF sorted = <<>> THEN <<x>>
    ELSE IF compareEvents(sorted[Len(sorted)], x) > 0
         THEN Append(insertEvent(SubSeq(sorted, 1, Len(sorted) - 1), x),
                     sorted[Len(sorted)])
         ELSE Append(sorted, x)

RECURSIVE insertionSorted(_)
insertionSorted(list) ==
    IF list = <<>> THEN <<>>
    ELSE insertEvent(insertionSorted(SubSeq(list, 1, Len(list) - 1)), list[Len(list)])

\* Bottom-up merge sort, the right run's head taken only when strictly less:
RECURSIVE mergeRuns(_, _)
mergeRuns(left, right) ==
    IF left = <<>> THEN right
    ELSE IF right = <<>> THEN left
    ELSE IF compareEvents(right[1], left[1]) < 0
         THEN <<right[1]>> \o mergeRuns(left, Tail(right))
         ELSE <<left[1]>> \o mergeRuns(Tail(left), right)

min(a, b) == IF a < b THEN a ELSE b

RECURSIVE mergePass(_, _)
mergePass(list, width) ==
    IF Len(list) <= width THEN list
    ELSE mergeRuns(SubSeq(list, 1, width),
                   SubSeq(list, width + 1, min(2 * width, Len(list))))
         \o mergePass(SubSeq(list, 2 * width + 1, Len(list)), width)

RECURSIVE mergeSorted(_, _)
mergeSorted(list, width) ==
    IF width >= Len(list) THEN list
    ELSE mergeSorted(mergePass(list, width), 2 * width)

Engines == {"insertion", "merge"}

\* allEvents.sort(comparator) in the client's engine
sortedEvents(list) ==
    IF engine = "insertion" THEN insertionSorted(list) ELSE mergeSorted(list, 1)

\* ------------------------------------------------------------ the store
Sunday(date) == WithDate(DEFAULT_EVENTS[1], date)
Study(date) == WithDate(DEFAULT_EVENTS[2], date)
Outing(date) ==
    [id |-> NoId, title |-> "Outing", time |-> SundayTime, isPermanent |-> FALSE,
     recurrence |-> <<>>, date |-> date]

\* what the store can hold when a client starts: at most one permanent event
\* per slot, dated with its occurrence of the starting week, and other events
\* with or without a date
InitStores ==
    { Empty,
      1 :> Sunday(14),
      1 :> Study(17),
      1 :> Sunday(14) @@ 2 :> Study(17),
      1 :> Outing(15) @@ 2 :> Sunday(14),
      1 :> Outing(16) @@ 2 :> Outing(NoDate) @@ 3 :> Sunday(14) }

\* every subscribed client is notified of a changed node
notified(st) ==
    [c \in Clients |-> IF st # store THEN subscribed[c] \/ pending[c] ELSE pending[c]]

NoRequest == [state |-> "none", mode |-> "DRIVING", routes |-> <<>>]

\* the widget's useState and useRef initial values; '' is the empty tuple
mapInit ==
    /\ originRef = "null"
    /\ selectedMode = "DRIVING"
    /\ mapError = "null"
    /\ isCalculating = FALSE
    /\ directionsResponse = "null"
    /\ distance = <<>>
    /\ duration = <<>>
    /\ toast = "none"
    /\ routeRequest = NoRequest

Init ==
    /\ zone \in ZoneOffsets
    /\ now \in {d * MinutesPerDay + m : d \in StartDays, m \in TimesOfDay}
    /\ ticks = 0
    /\ store \in InitStores
    /\ nextId = Cardinality(DOMAIN store) + 1
    /\ seedPc = [c \in Clients |-> "idle"]
    /\ seedUpd = [c \in Clients |-> Empty]
    /\ seedAt = [c \in Clients |-> 0]
    /\ seedHist = <<>>
    /\ subscribed = [c \in Clients |-> FALSE]
    /\ pending = [c \in Clients |-> FALSE]
    /\ inflight = [c \in Clients |-> <<>>]
    /\ events = [c \in Clients |-> <<>>]
    /\ pubAt = [c \in Clients |-> 0]
    /\ cache = [c \in Clients |-> <<>>]
    /\ loading = [c \in Clients |-> TRUE]
    /\ error = [c \in Clients |-> "null"]
    /\ engine \in Engines
    /\ mapInit

\* the clock moves on to a later time of this day or of the next
Tick ==
    /\ ticks < MaxTicks
    /\ \E d \in LocalDay(now)..(LocalDay(now) + 1), m \in TimesOfDay :
          /\ d * MinutesPerDay + m > now
          /\ now' = d * MinutesPerDay + m
    /\ ticks' = ticks + 1
    /\ UNCHANGED <<engine, zone, store, nextId, seedPc, seedUpd, seedAt, seedHist, subscribed,
                   pending, inflight, events, pubAt, cache, loading, error>>
    /\ UNCHANGED mapVars

\* the effect runs: initializePermanentEvents() is called and not awaited (it
\* runs up to its get), then onValue registers the handler
Mount(c) ==
    /\ seedPc[c] = "idle"
    /\ ~subscribed[c]
    /\ seedPc' = [seedPc EXCEPT ![c] = "reading"]
    /\ subscribed' = [subscribed EXCEPT ![c] = TRUE]
    /\ pending' = [pending EXCEPT ![c] = TRUE]
    /\ UNCHANGED <<engine, now, zone, ticks, store, nextId, seedUpd, seedAt, seedHist,
                   inflight, events, pubAt, cache, loading, error>>
    /\ UNCHANGED mapVars

\* get(eventsRef) resolves: the scan, the updates object, and the set if any
SeedRead(c) ==
    /\ seedPc[c] = "reading"
    /\ LET updates == seedUpdates(store, now, zone, nextId)
           n == Cardinality(DOMAIN updates)
       IN  /\ nextId + n - 1 <= MaxId
           /\ nextId' = nextId + n
           /\ seedUpd' = [seedUpd EXCEPT ![c] = updates]
           /\ seedPc' = [seedPc EXCEPT ![c] = IF n > 0 THEN "writing" ELSE "done"]
           /\ seedHist' = IF n > 0 THEN Append(seedHist, <<c, "read">>)
                          ELSE seedHist \o <<<<c, "read">>, <<c, "end">>>>
    /\ seedAt' = [seedAt EXCEPT ![c] = now]
    /\ UNCHANGED <<engine, now, zone, ticks, store, subscribed, pending, inflight, events,
                   pubAt, cache, loading, error>>
    /\ UNCHANGED mapVars

\* get(eventsRef) rejects: the promise of initializePermanentEvents rejects and
\* nothing handles it
SeedReadFail(c) ==
    /\ seedPc[c] = "reading"
    /\ seedPc' = [seedPc EXCEPT ![c] = "failed"]
    /\ seedHist' = Append(seedHist, <<c, "fail">>)
    /\ UNCHANGED <<engine, now, zone, ticks, store, nextId, seedUpd, seedAt, subscribed,
                   pending, inflight, events, pubAt, cache, loading, error>>
    /\ UNCHANGED mapVars

\* set(ref(database, 'events'), updates) lands
SeedWrite(c) ==
    /\ seedPc[c] = "writing"
    /\ store' = setEvents(store, seedUpd[c])
    /\ pending' = notified(store')
    /\ seedPc' = [seedPc EXCEPT ![c] = "done"]
    /\ seedHist' = Append(seedHist, <<c, "end">>)
    /\ UNCHANGED <<engine, now, zone, ticks, nextId, seedUpd, seedAt, subscribed, inflight,
                   events, pubAt, cache, loading, error>>
    /\ UNCHANGED mapVars

\* set(ref(database, 'events'), updates) rejects: again unhandled
SeedWriteFail(c) ==
    /\ seedPc[c] = "writing"
    /\ seedPc' = [seedPc EXCEPT ![c] = "failed"]
    /\ seedHist' = Append(seedHist, <<c, "fail">>)
    /\ UNCHANGED <<engine, now, zone, ticks, store, nextId, seedUpd, seedAt, subscribed,
                   pending, inflight, events, pubAt, cache, loading, error>>
    /\ UNCHANGED mapVars

\* setEvents(sortedEvents); cacheService.set(CACHE_KEY, sortedEvents); finally
publish(c, list) ==
    /\ events' = [events EXCEPT ![c] = sortedEvents(list)]
    /\ cache' = [cache EXCEPT ![c] = <<sortedEvents(list)>>]
    /\ pubAt' = [pubAt EXCEPT ![c] = now]
    /\ loading' = [loading EXCEPT ![c] = FALSE]

\* the onValue handler runs on a snapshot, up to its first real wait
Deliver(c) ==
    /\ subscribed[c]
    /\ pending[c]
    /\ pending' = [pending EXCEPT ![c] = FALSE]
    /\ LET allEvents == allEventsOf(store)
           updates == reconcileUpdates(allEvents, now, zone)
       IN  IF DOMAIN store = {}
           THEN /\ events' = [events EXCEPT ![c] = <<>>]
                /\ pubAt' = [pubAt EXCEPT ![c] = now]
                /\ loading' = [loading EXCEPT ![c] = FALSE]
                /\ UNCHANGED <<cache, inflight>>
           ELSE IF DOMAIN updates = {}
           THEN /\ publish(c, allEvents)
                /\ UNCHANGED inflight
           ELSE /\ Len(inflight[c]) < MaxInFlight
                /\ inflight' = [inflight EXCEPT ![c] =
                       Append(@, [allEvents |-> allEvents, updates |-> updates,
                                  at |-> now, landed |-> FALSE])]
                /\ UNCHANGED <<events, pubAt, cache, loading>>
    /\ UNCHANGED <<engine, now, zone, ticks, store, nextId, seedPc, seedUpd, seedAt, seedHist,
                   subscribed, error>>
    /\ UNCHANGED mapVars

without(q, i) == SubSeq(q, 1, i - 1) \o SubSeq(q, i + 1, Len(q))

\* the batched write of validateAndUpdatePermanentEvents reaches the store
ReconcileLand(c, i) ==
    /\ i \in 1..Len(inflight[c])
    /\ ~inflight[c][i].landed
    /\ store' = writePaths(store, inflight[c][i].updates)
    /\ pending' = notified(store')
    /\ inflight' = [inflight EXCEPT ![c][i].landed = TRUE]
    /\ UNCHANGED <<engine, now, zone, ticks, nextId, seedPc, seedUpd, seedAt, seedHist,
                   subscribed, events, pubAt, cache, loading, error>>
    /\ UNCHANGED mapVars

\* its promise resolves: the handler sorts and publishes the list it holds
ReconcileResume(c, i) ==
    /\ i \in 1..Len(inflight[c])
    /\ inflight[c][i].landed
    /\ publish(c, inflight[c][i].allEvents)
    /\ inflight' = [inflight EXCEPT ![c] = without(@, i)]
    /\ UNCHANGED <<engine, now, zone, ticks, store, nextId, seedPc, seedUpd, seedAt, seedHist,
                   subscribed, pending, error>>
    /\ UNCHANGED mapVars

\* a handler that swallowed the rejection and went on to sort and publish
ReconcileFailPublishes(c, i) ==
    /\ i \in 1..Len(inflight[c])
    /\ ~inflight[c][i].landed
    /\ publish(c, inflight[c][i].allEvents)
    /\ inflight' = [inflight EXCEPT ![c] = without(@, i)]
    /\ UNCHANGED <<engine, now, zone, ticks, store, nextId, seedPc, seedUpd, seedAt, seedHist,
                   subscribed, pending, error>>
    /\ UNCHANGED mapVars

\* the batched write is rejected: the handler's catch and finally
ReconcileFail(c, i) ==
    /\ i \in 1..Len(inflight[c])
    /\ ~inflight[c][i].landed
    /\ error' = [error EXCEPT ![c] = "fetch"]
    /\ loading' = [loading EXCEPT ![c] = FALSE]
    /\ inflight' = [inflight EXCEPT ![c] = without(@, i)]
    /\ UNCHANGED <<engine, now, zone, ticks, store, nextId, seedPc, seedUpd, seedAt, seedHist,
                   subscribed, pending, events, pubAt, cache>>
    /\ UNCHANGED mapVars

\* the cancel callback of onValue: the listener is gone
SubscriptionFail(c) ==
    /\ subscribed[c]
    /\ subscribed' = [subscribed EXCEPT ![c] = FALSE]
    /\ pending' = [pending EXCEPT ![c] = FALSE]
    /\ error' = [error EXCEPT ![c] = "subscribe"]
    /\ loading' = [loading EXCEPT ![c] = FALSE]
    /\ UNCHANGED <<engine, now, zone, ticks, store, nextId, seedPc, seedUpd, seedAt, seedHist,
                   inflight, events, pubAt, cache>>
    /\ UNCHANGED mapVars

\* one client at work, the clock running
Next ==
    \/ Tick
    \/ Mount("a")
    \/ SeedRead("a")
    \/ SeedReadFail("a")
    \/ SeedWrite("a")
    \/ SeedWriteFail("a")
    \/ Deliver("a")
    \/ \E i \in 1..MaxInFlight : ReconcileLand("a", i)
    \/ \E i \in 1..MaxInFlight : ReconcileResume("a", i)
    \/ \E i \in 1..MaxInFlight : ReconcileFail("a", i)
    \/ SubscriptionFail("a")

Spec == Init /\ [][Next]_vars

\* two clients on one store, the store answering every request, at one instant
\* (a Sunday, 12:30, in Kalk Bay)
InitPair ==
    /\ Init
    /\ zone = 120
    /\ now = 14 * MinutesPerDay + 12 * 60 + 30

NextPair ==
    \/ \E c \in Clients : Mount(c)
    \/ \E c \in Clients : SeedRead(c)
    \/ \E c \in Clients : SeedWrite(c)
    \/ \E c \in Clients : Deliver(c)
    \/ \E c \in Clients, i \in 1..MaxInFlight : ReconcileLand(c, i)
    \/ \E c \in Clients, i \in 1..MaxInFlight : ReconcileResume(c, i)

SpecPair == InitPair /\ [][NextPair]_vars

\* ---- the route scorer of the directions widget ----

\* the numbers of the scorer: a ratio of integers, Infinity or NaN
RECURSIVE gcd(_, _)
gcd(a, b) == IF b = 0 THEN a ELSE gcd(b, a % b)

abs(a) == IF a < 0 THEN 0 - a ELSE a

ratio(n, d) ==
    LET g == gcd(abs(n), abs(d))
        sign == IF d < 0 THEN 0 - 1 ELSE 1
    IN  [kind |-> "num", n |-> sign * (n \div g), d |-> sign * (d \div g)]

Num(v) == [kind |-> "num", n |-> v, d |-> 1]

Infinity == [kind |-> "inf", n |-> 1, d |-> 0]

NaN == [kind |-> "nan", n |-> 0, d |-> 0]

\* a * b for operands that are not negative
times(a, b) ==
    IF a.kind = "nan" \/ b.kind = "nan" THEN NaN
    ELSE IF a.kind = "inf" THEN (IF b.kind = "num" /\ b.n = 0 THEN NaN ELSE Infinity)
    ELSE IF b.kind = "inf" THEN (IF a.n = 0 THEN NaN ELSE Infinity)
    ELSE ratio(a.n * b.n, a.d * b.d)

\* a / b for operands that are not negative
divide(a, b) ==
    IF a.kind = "nan" \/ b.kind = "nan" THEN NaN
    ELSE IF a.kind = "inf" THEN (IF b.kind = "inf" THEN NaN ELSE Infinity)
    ELSE IF b.kind = "inf" THEN Num(0)
    ELSE IF b.n = 0 THEN (IF a.n = 0 THEN NaN ELSE Infinity)
    ELSE ratio(a.n * b.d, a.d * b.n)

\* a + b where b is a number
plus(a, b) ==
    IF a.kind = "num" THEN ratio(a.n * b.d + b.n * a.d, a.d * b.d) ELSE a

\* a < b
lessThan(a, b) ==
    /\ a.kind = "num"
    /\ \/ b.kind = "inf"
       \/ b.kind = "num" /\ a.n * b.d < b.n * a.d

PerTurnPenalty == 30

PerTransferPenalty == 900

TravelModes == {"DRIVING", "TRANSIT", "WALKING"}

\* the score the forEach body computes for a first leg
legScore(leg, mode) ==
    LET durationValue == IF leg.duration = <<>> THEN Infinity ELSE Num(leg.duration[1])
        distanceValue == IF leg.distance = <<>> THEN Num(0) ELSE Num(leg.distance[1])
        detourFactor == divide(distanceValue, Num(leg.direct))
        detoured == times(durationValue, detourFactor)
        inTraffic ==
            IF mode = "DRIVING" /\ leg.traffic # <<>> /\ leg.traffic[1] # 0
            THEN times(detoured, divide(Num(leg.traffic[1]), durationValue))
            ELSE detoured
        withTurns == plus(inTraffic, Num(leg.steps * PerTurnPenalty))
    IN  IF mode = "TRANSIT"
        THEN plus(withTurns, Num((leg.transit - 1) * PerTransferPenalty))
        ELSE withTurns

\* results.routes.forEach from route j on; best is bestRoute (its index) and
\* bestScore so far
RECURSIVE forEachRoute(_, _, _, _)
forEachRoute(routes, mode, j, best) ==
    IF j > Len(routes) THEN best
    ELSE IF routes[j].legs = <<>> THEN forEachRoute(routes, mode, j + 1, best)
    ELSE LET score == legScore(routes[j].legs[1], mode)
         IN  forEachRoute(routes, mode, j + 1,
                 IF lessThan(score, best.score)
                 THEN [route |-> j, score |-> score]
                 ELSE best)

bestRoute(routes, mode) ==
    forEachRoute(routes, mode, 1, [route |-> 1, score |-> Infinity]).route

\* routes the provider may return: seconds, metres, counts of steps
Leg(dur, dist, traf, steps, transit) ==
    [duration |-> dur, distance |-> dist, direct |-> 4000, traffic |-> traf,
     steps |-> steps, transit |-> transit]

Candidates ==
    { [name |-> "coast",   legs |-> <<Leg(<<600>>, <<6000>>, <<>>, 2, 1)>>],
      [name |-> "main",    legs |-> <<Leg(<<800>>, <<4000>>, <<900>>, 2, 2)>>],
      [name |-> "untimed", legs |-> <<Leg(<<>>, <<5000>>, <<900>>, 1, 0)>>],
      [name |-> "legless", legs |-> <<>>],
      [name |-> "hill",    legs |-> <<Leg(<<700>>, <<4000>>, <<>>, 3, 0)>>] }

MaxRoutes == 2

RouteLists ==
    UNION { { s \in [1..n -> Candidates] :
                \A i, j \in 1..n : i # j => s[i] # s[j] } : n \in 0..MaxRoutes }

EnterStart == "Please enter your starting point"

SelectValid == "Please select a valid location from the dropdown"

Unable == "Unable to calculate route. Please try a different location or travel mode."

LoadFailed == "Failed to load Google Maps"

\* onLoad of the Autocomplete: the ref holds it, no place chosen yet
AutocompleteLoad ==
    /\ mapError = "null"
    /\ originRef = "null"
    /\ originRef' = "empty"
    /\ UNCHANGED <<selectedMode, mapError, isCalculating, directionsResponse,
                   distance, duration, toast, routeRequest>>
    /\ UNCHANGED hookVars

\* the user types free text (a place without geometry) or picks a suggestion
PlaceChanged(p) ==
    /\ mapError = "null"
    /\ originRef # "null"
    /\ originRef' = p
    /\ UNCHANGED <<selectedMode, mapError, isCalculating, directionsResponse,
                   distance, duration, toast, routeRequest>>
    /\ UNCHANGED hookVars

SetSelectedMode(m) ==
    /\ mapError = "null"
    /\ selectedMode' = m
    /\ UNCHANGED <<originRef, mapError, isCalculating, directionsResponse,
                   distance, duration, toast, routeRequest>>
    /\ UNCHANGED hookVars

\* calculateRoute with isCalculating raised before the origin is looked at
calculateRouteEager ==
    /\ mapError = "null"
    /\ isCalculating' = TRUE
    /\ IF originRef = "null"
       THEN toast' = EnterStart /\ UNCHANGED routeRequest
       ELSE IF originRef # "place"
       THEN toast' = SelectValid /\ UNCHANGED routeRequest
       ELSE /\ routeRequest.state = "none"
            /\ routeRequest' = [state |-> "sent", mode |-> selectedMode, routes |-> <<>>]
            /\ UNCHANGED toast
    /\ UNCHANGED <<originRef, selectedMode, mapError, directionsResponse,
                   distance, duration>>
    /\ UNCHANGED hookVars

\* calculateRoute up to its await; one request is awaited at a time
calculateRoute ==
    /\ mapError = "null"
    /\ IF originRef = "null"
       THEN toast' = EnterStart /\ UNCHANGED <<isCalculating, routeRequest>>
       ELSE IF originRef # "place"
       THEN toast' = SelectValid /\ UNCHANGED <<isCalculating, routeRequest>>
       ELSE /\ routeRequest.state = "none"
            /\ isCalculating' = TRUE
            /\ routeRequest' = [state |-> "sent", mode |-> selectedMode, routes |-> <<>>]
            /\ UNCHANGED toast
    /\ UNCHANGED <<originRef, selectedMode, mapError, directionsResponse,
                   distance, duration>>
    /\ UNCHANGED hookVars

\* the directions provider answers the request
ProviderAnswers(routes) ==
    /\ routeRequest.state = "sent"
    /\ routeRequest' = [routeRequest EXCEPT !.state = "answered", !.routes = routes]
    /\ UNCHANGED <<originRef, selectedMode, mapError, isCalculating,
                   directionsResponse, distance, duration, toast>>
    /\ UNCHANGED hookVars

ProviderRejects ==
    /\ routeRequest.state = "sent"
    /\ routeRequest' = [routeRequest EXCEPT !.state = "rejected"]
    /\ UNCHANGED <<originRef, selectedMode, mapError, isCalculating,
                   directionsResponse, distance, duration, toast>>
    /\ UNCHANGED hookVars

\* calculateRoute after its await: scoring, the three setters, finally
RouteResult ==
    /\ routeRequest.state = "answered"
    /\ LET routes == routeRequest.routes
           mode == routeRequest.mode
       IN  IF Len(routes) > 0
           THEN LET best == routes[bestRoute(routes, mode)]
                IN  /\ directionsResponse' = best.name
                    /\ IF best.legs # <<>>
                       THEN /\ distance' = best.legs[1].distance
                            /\ duration' =
                                   IF mode = "TRANSIT" /\ best.legs[1].traffic # <<>>
                                   THEN best.legs[1].duration \o <<"with transit times">>
                                   ELSE best.legs[1].duration
                       ELSE UNCHANGED <<distance, duration>>
                    /\ UNCHANGED toast
           ELSE /\ toast' = Unable
                /\ UNCHANGED <<directionsResponse, distance, duration>>
    /\ isCalculating' = FALSE
    /\ routeRequest' = NoRequest
    /\ UNCHANGED <<originRef, selectedMode, mapError>>
    /\ UNCHANGED hookVars

\* calculateRoute after its await was rejected: catch, finally
RouteError ==
    /\ routeRequest.state = "rejected"
    /\ toast' = Unable
    /\ isCalculating' = FALSE
    /\ routeRequest' = NoRequest
    /\ UNCHANGED <<originRef, selectedMode, mapError, directionsResponse,
                   distance, duration>>
    /\ UNCHANGED hookVars

clearRoute ==
    /\ mapError = "null"
    /\ directionsResponse' = "null"
    /\ distance' = <<>>
    /\ duration' = <<>>
    /\ UNCHANGED <<originRef, selectedMode, mapError, isCalculating, toast,
                   routeRequest>>
    /\ UNCHANGED hookVars

handleLoadError ==
    /\ mapError = "null"
    /\ mapError' = "Failed to load Google Maps. Please try again later."
    /\ toast' = LoadFailed
    /\ UNCHANGED <<originRef, selectedMode, isCalculating, directionsResponse,
                   distance, duration, routeRequest>>
    /\ UNCHANGED hookVars

\* the notification leaves the screen
ToastExpires ==
    /\ toast # "none"
    /\ toast' = "none"
    /\ UNCHANGED <<originRef, selectedMode, mapError, isCalculating,
                   directionsResponse, distance, duration, routeRequest>>
    /\ UNCHANGED hookVars

\* the widget on a page whose hook is not mounted
InitRoute ==
    /\ Init
    /\ zone = 0
    /\ now = 13 * MinutesPerDay + 30
    /\ store = Empty
    /\ engine = "insertion"

NextRoute ==
    \/ AutocompleteLoad
    \/ \E p \in {"empty", "noGeometry", "place"} : PlaceChanged(p)
    \/ \E m \in TravelModes : SetSelectedMode(m)
    \/ calculateRoute
    \/ \E routes \in RouteLists : ProviderAnswers(routes)
    \/ ProviderRejects
    \/ RouteResult
    \/ RouteError
    \/ clearRoute
    \/ handleLoadError
    \/ ToastExpires

SpecRoute == InitRoute /\ [][NextRoute]_vars

\* ---------------------------------------------------------------- claims
permanentIn(st, dow) ==
    {k \in DOMAIN st : st[k].isPermanent /\ st[k].recurrence = <<dow>>}

permanentOf(st) == {k \in DOMAIN st : st[k].isPermanent}

\* one seeding has read and finished, then another has read and finished
SeededTwiceInSequence ==
    \E x \in Clients, y \in Clients :
        /\ x # y
        /\ seedHist = <<<<x, "read">>, <<x, "end">>, <<y, "read">>, <<y, "end">>>>

\* C1: two seedings in sequence, the second reading after the first has
\* finished, leave exactly two permanent events, one for Sunday (0) and one
\* for Wednesday (3), whatever the store held (at most one per slot).
SeededTwiceLeavesTwoPermanent ==
    SeededTwiceInSequence =>
        /\ Cardinality(permanentOf(store)) = 2
        /\ Cardinality(permanentIn(store, 0)) = 1
        /\ Cardinality(permanentIn(store, 3)) = 1

\* C2: no seeding write and no reconciliation write removes an event: every
\* id of the store before a step is an id of the store after it.
NoEventDeleted == [][DOMAIN store \subseteq DOMAIN store']_vars

\* C3: at every instant and in every zone, getNextDate(d) is a date whose
\* weekday is d and that lies 1 to 7 days after today's local date.
NextDateIsNextWeekday ==
    \A d \in 0..6 :
        LET next == getNextDate(d, now, zone)
        IN  /\ Weekday(next) = d
            /\ next - LocalDay(now) \in 1..7

\* C4: seeding has finished (its read and write completed or failed) before
\* the live subscription exists, so no snapshot is handled during seeding.
SeedingFinishedBeforeSubscription ==
    \A c \in Clients : subscribed[c] => seedPc[c] \in {"done", "failed"}

indexOfId(list, k) == CHOOSE i \in 1..Len(list) : list[i].id = k

\* C5: every update staged by reconciliation carries a date strictly later
\* than the date it replaces.
ReconcileDateStrictlyLater ==
    \A c \in Clients : \A i \in 1..Len(inflight[c]) :
        LET h == inflight[c][i]
        IN  \A k \in DOMAIN h.updates :
                h.updates[k].date > h.allEvents[indexOfId(h.allEvents, k)].date

SeedingFailureReported ==
    \A c \in Clients : seedPc[c] = "failed" => error[c] # "null"

\* C8: a seeding that reads a store holding a permanent event for slot 0 and
\* one for slot 3 stages nothing, issues no write and leaves the store as it is.
SeededStoreNotWritten ==
    [][\A c \in Clients :
          ( /\ seedPc[c] = "reading"
            /\ seedPc'[c] \in {"writing", "done"}
            /\ permanentIn(store, 0) # {}
            /\ permanentIn(store, 3) # {} )
          => ( /\ seedPc'[c] = "done"
               /\ seedUpd'[c] = Empty
               /\ store' = store )]_vars

SeededStoreSkipped ==
    /\ seedPc["a"] = "done"
    /\ seedUpd["a"] = Empty
    /\ store = 1 :> Sunday(14) @@ 2 :> Study(17)

SeedDatedTodayWithinWindow ==
    \A c \in Clients : \A k \in DOMAIN seedUpd[c] :
        LET e == seedUpd[c][k]
            today == LocalDay(seedAt[c])
            slot == e.recurrence[1]
        IN  IF Weekday(today) = slot
               /\ ~(seedAt[c] > today * MinutesPerDay + e.time + WindowMinutes)
            THEN e.date = today
            ELSE Weekday(e.date) = slot /\ e.date - today \in 1..7

\* C11: a permanent event dated today (a day of its own weekday) whose start
\* lies two hours or more in the past is staged by reconciliation with the date
\* of today plus 7 days.
ElapsedTodayAdvancedOneWeek ==
    \A c \in Clients : \A i \in 1..Len(inflight[c]) :
        LET h == inflight[c][i]
            today == LocalDay(h.at)
        IN  \A j \in 1..Len(h.allEvents) :
                LET e == h.allEvents[j]
                IN  ( /\ e.isPermanent
                      /\ e.recurrence = <<Weekday(today)>>
                      /\ e.date = today
                      /\ h.at >= eventEnd(e) )
                    => /\ e.id \in DOMAIN h.updates
                       /\ h.updates[e.id].date = today + 7

otherFields(e) == <<e.title, e.time, e.isPermanent, e.recurrence>>

deliveredDirectly(c) ==
    /\ pending[c] /\ ~pending'[c] /\ subscribed'[c]
    /\ inflight'[c] = inflight[c]

\* client c's handler i has resumed after its write and finished
resumed(c, i) ==
    /\ i \in 1..Len(inflight[c])
    /\ inflight[c][i].landed
    /\ inflight'[c] = without(inflight[c], i)

sortedPermutation(out, in) ==
    /\ Len(out) = Len(in)
    /\ {out[i] : i \in 1..Len(out)} = {in[i] : i \in 1..Len(in)}
    /\ \A i \in 1..Len(out) : \A j \in (i + 1)..Len(out) :
          (out[i].date # NoDate /\ out[j].date # NoDate) => out[i].date <= out[j].date

\* C13: every published list is a permutation of the snapshot's events in
\* which any two events that have a date are in ascending date order, wherever
\* the events without a date stand.
PublishedSortedByDate ==
    [][\A c \in Clients :
          /\ deliveredDirectly(c) => sortedPermutation(events'[c], allEventsOf(store))
          /\ \A i \in 1..MaxInFlight :
                resumed(c, i) => sortedPermutation(events'[c], inflight[c][i].allEvents)]_vars

\* both clients have read a store without permanent events (the empty one)
\* and both seeding writes have landed
seedingRaceOver ==
    \A c \in Clients : seedPc[c] = "done" /\ Cardinality(DOMAIN seedUpd[c]) = 2

CacheEqualsPublished ==
    [][\A c \in Clients :
          /\ deliveredDirectly(c) => cache'[c] = <<events'[c]>>
          /\ \A i \in 1..MaxInFlight :
                 resumed(c, i) /\ error'[c] = error[c] => cache'[c] = <<events'[c]>>]_vars

\* client c's handler gave up on a rejected reconciliation write
reconcileFailed(c) ==
    \E i \in 1..Len(inflight[c]) :
        /\ ~inflight[c][i].landed
        /\ inflight'[c] = without(inflight[c], i)

\* client c's subscription was cancelled by the store
channelFailed(c) == subscribed[c] /\ ~subscribed'[c]

\* C18: a rejected reconciliation write or a failed subscription is reported
\* (error non-null, loading false), nothing is written again, and the
\* published list and the cache stay as they were.
FailureReportedDataKept ==
    [][\A c \in Clients :
          (reconcileFailed(c) \/ channelFailed(c)) =>
              /\ error'[c] # "null"
              /\ ~loading'[c]
              /\ events'[c] = events[c]
              /\ cache'[c] = cache[c]
              /\ store' = store
              /\ Len(inflight'[c]) <= Len(inflight[c])]_vars

FailedWriteAfterPublication ==
    /\ error["a"] = "fetch"
    /\ ~loading["a"]
    /\ events["a"] # <<>>
    /\ cache["a"] = <<events["a"]>>
    /\ inflight["a"] = <<>>

\* client c has handled every notification of a non-empty store and nothing
\* of its own is still running
quiescent(c) ==
    /\ subscribed[c] /\ ~pending[c]
    /\ inflight[c] = <<>>
    /\ seedPc[c] \in {"done", "failed"}
    /\ error[c] = "null"
    /\ store # Empty

legged(routes) == {j \in 1..Len(routes) : routes[j].legs # <<>>}

sameScore(a, b) == a.kind # "nan" /\ a = b

\* route j is the first of the legged routes with the lowest score
firstLowest(routes, mode, j) ==
    /\ j \in legged(routes)
    /\ \A k \in legged(routes) :
           /\ ~lessThan(legScore(routes[k].legs[1], mode),
                        legScore(routes[j].legs[1], mode))
           /\ k < j => ~sameScore(legScore(routes[k].legs[1], mode),
                                  legScore(routes[j].legs[1], mode))

\* C16: when the scorer has gone through an answer with at least one route
\* that has a first leg, the route it shows is the legged route with the
\* lowest score, the first in the provider's list among equals.
ScorerSelectsFirstLowest ==
    [][(routeRequest.state = "answered" /\ routeRequest'.state = "none"
            /\ legged(routeRequest.routes) # {}) =>
          \E j \in legged(routeRequest.routes) :
              /\ firstLowest(routeRequest.routes, routeRequest.mode, j)
              /\ directionsResponse' = routeRequest.routes[j].name]_vars

InputErrors == {EnterStart, SelectValid}

\* C17: a user-input error of calculateRoute shows a transient notification
\* and nothing else: the map error state, the provider request, isCalculating,
\* directionsResponse, distance and duration are as before.
InputErrorOnlyNotifies ==
    [][(toast' \in InputErrors /\ toast' # toast) =>
          /\ originRef # "place"
          /\ mapError' = mapError
          /\ routeRequest' = routeRequest
          /\ isCalculating' = isCalculating
          /\ directionsResponse' = directionsResponse
          /\ distance' = distance
          /\ duration' = duration]_vars

InputErrorAfterRoute ==
    /\ toast \in InputErrors
    /\ originRef # "place"
    /\ directionsResponse # "null"
    /\ distance # <<>>
    /\ mapError = "null"
    /\ ~isCalculating
    /\ routeRequest = NoRequest

====
